---- MODULE Spec2Model ----
(***************************************************************************)
(* State-machine model of the localtunnel client agent driver              *)
(* (client/src/lib.rs) and of the server's endpoint allocator              *)
(* (server/src/api.rs, server/src/auth.rs).                                *)
(*                                                                         *)
(* ClientSpec is the client: tunnel_to_endpoint's supervisor task, the     *)
(* worker tasks it spawns, and the holder of the broadcast sender.         *)
(* tokio::select! without `biased;` polls its branches in a random order,  *)
(* so whenever two branches are ready either one may be taken.             *)
(* ClientFairSpec adds the fairness of the executor, for liveness.         *)
(*                                                                         *)
(* ServerSpec is the server: concurrent request_endpoint handlers over the *)
(* manager's registry.  The Tunnel Manager (state.rs) is not part of the   *)
(* sources at hand; manager.put and manager.remove follow the design       *)
(* document (lookup-or-create, idempotent reuse, the "?new" sentinel).     *)
(* The server starts from every pairing of an auth mode with its secrets   *)
(* present or absent: request_endpoint reads CONFIG on its own, whatever   *)
(* auth::validate decided at startup.                                      *)
(* GrammarSpec is the same server in NOAUTH mode, asked for one subdomain   *)
(* after another at the boundaries of the grammar.  StartupSpec applies    *)
(* auth::validate to every auth mode and Config.                           *)
(*                                                                         *)
(* OpenTunnelSpec is the client from open_tunnel on: the allocation call   *)
(* get_tunnel_endpoint with the replies it can get, then the supervisor    *)
(* and workers of ClientSpec for the descriptor that came back.            *)
(*                                                                         *)
(* PoolSpec is the Agent Socket Pool of one Tunnel with its takers (the    *)
(* pool is not part of the sources at hand either; it follows the design   *)
(* document).                                                              *)
(***************************************************************************)
EXTENDS Integers, Sequences, FiniteSets, Bags, TLC

\* Largest u8 value drawn for max_conn_count and max_conn.
MaxConn == 2

\* Task slots for workers: one more than any permit count, so that the cap
\* on live workers is enforced by the semaphore and not by the slots.
WorkerSlots == 1 .. (MaxConn + 1)

VARIABLES
    max_conn_count,  \* TunnelServerInfo.max_conn_count (from the descriptor)
    max_conn,        \* ClientConfig.max_conn
    count,           \* min(max_conn_count, max_conn), set by tunnel_to_endpoint
    permits,         \* free permits of limit_connection
    sup,             \* supervisor task: "none" | "running" | "returned"
    sup_rx,          \* the supervisor's shutdown_receiver holds a message
    wk,              \* worker tasks, by slot
    shutdown_sent,   \* shutdown_signal.send(()) has been called
    exit_paths,      \* exit paths workers have taken so far
    spawn_parity     \* number of workers spawned so far, modulo 2

VARIABLES
    auth_mode,       \* State.auth_mode
    CONFIG,          \* the process-wide Config (secrets read from the environment)
    secure,          \* State.secure
    hd,              \* request_endpoint handlers in flight (a bag of records)
    manager_lock,    \* holder of state.manager's mutex, 0 when free
    tunnels          \* the manager's registry: the live Tunnels

VARIABLES
    validated        \* result of auth::validate at startup, "" before the call

VARIABLES
    pool_capacity,   \* the Pool's max_sockets
    pool_open,       \* the Pool's listener is open (no shutdown yet)
    pool_accepted,   \* agent sockets accepted so far; they are 1 .. pool_accepted
    pool_waiting,    \* the waiting FIFO, oldest first
    pool_dead,       \* Waiting sockets whose peer has closed
    pool_paired,     \* the Pairings: [agent |-> socket, user |-> user socket]
    pool_closed,     \* agent sockets that are Closed
    pool_rejected,   \* agent sockets closed on accept, for capacity
    pool_taker,      \* each user acceptor task's position in take()
    pool_handed      \* the agent sockets take() has returned, in order

VARIABLES
    open_tunnel_pc,  \* open_tunnel: "start" | "requesting" | "allocated" |
                     \* "returned_ok" | "returned_err"
    server,          \* ClientConfig.server
    request_uri,     \* the uri get_tunnel_endpoint requests
    proxy_resp,      \* what reqwest::get brought back
    tunnel_info      \* the TunnelServerInfo, <<>> while there is none

client_vars == <<max_conn_count, max_conn, count, permits, sup, sup_rx, wk,
                 shutdown_sent, exit_paths, spawn_parity>>

server_vars == <<auth_mode, CONFIG, secure, hd, manager_lock, tunnels>>

pool_vars == <<pool_capacity, pool_open, pool_accepted, pool_waiting, pool_dead,
               pool_paired, pool_closed, pool_rejected, pool_taker, pool_handed>>

\* What the client's steps leave alone, and what the allocator's steps do.
alloc_vars == <<open_tunnel_pc, server, request_uri, proxy_resp, tunnel_info>>

non_client_vars == <<server_vars, validated, pool_vars, alloc_vars>>
non_server_vars == <<client_vars, validated, pool_vars, alloc_vars>>

vars == <<client_vars, server_vars, validated, pool_vars, alloc_vars>>

Min(a, b) == IF a <= b THEN a ELSE b

\* A slot with no task.  A task's pc is "spawned" (not polled yet),
\* "dial_remote", "dial_local", "pump" or "backoff"; rx says whether its
\* shutdown_receiver holds a message; remote and local are its sockets.
NoWorker == [pc |-> "none", rx |-> FALSE, remote |-> "closed",
             local |-> "closed", keepalive |-> FALSE]

\* The worker tasks that exist: dialing, pumping or in failure back-off.
Live == {w \in WorkerSlots : wk[w].pc # "none"}

\* The states in which a worker is suspended in its select! (lines 188-201).
InSelect(w) == wk[w].pc \in {"spawned", "dial_remote", "dial_local", "pump"}

ClientInit ==
    /\ max_conn_count \in 0 .. MaxConn
    /\ max_conn \in 0 .. MaxConn
    /\ count = 0
    /\ permits = 0
    /\ sup = "none"
    /\ sup_rx = FALSE
    /\ wk = [w \in WorkerSlots |-> NoWorker]
    /\ shutdown_sent = FALSE
    /\ exit_paths = {}
    /\ spawn_parity = 0

\* tunnel_to_endpoint sizing the semaphore by the configured max_conn alone.
tunnel_to_endpoint_ignores_descriptor ==
    /\ open_tunnel_pc = "allocated"
    /\ sup = "none"
    /\ count' = max_conn
    /\ permits' = max_conn
    /\ sup' = "running"
    /\ sup_rx' = FALSE
    /\ UNCHANGED <<non_client_vars, spawn_parity, max_conn_count, max_conn, wk, shutdown_sent,
                   exit_paths>>

\* tunnel_to_endpoint, called by open_tunnel once get_tunnel_endpoint
\* returned Ok: computes count, creates the semaphore, subscribes the
\* supervisor's receiver and spawns the supervisor.
tunnel_to_endpoint ==
    /\ open_tunnel_pc = "allocated"
    /\ sup = "none"
    /\ count' = Min(max_conn_count, max_conn)
    /\ permits' = Min(max_conn_count, max_conn)
    /\ sup' = "running"
    /\ sup_rx' = FALSE
    /\ UNCHANGED <<non_client_vars, spawn_parity, max_conn_count, max_conn, wk, shutdown_sent,
                   exit_paths>>

\* The holder of the broadcast sender sends the shutdown signal: every
\* receiver subscribed at this moment gets the message.
Broadcast ==
    /\ sup # "none"
    /\ shutdown_sent' = TRUE
    /\ sup_rx' = (sup = "running")
    /\ wk' = [w \in WorkerSlots |->
                IF wk[w].pc # "none" THEN [wk[w] EXCEPT !.rx = TRUE] ELSE wk[w]]
    /\ UNCHANGED <<non_client_vars, spawn_parity, max_conn_count, max_conn, count, permits,
                   sup, exit_paths>>

\* A supervisor that fills its permits once and never replaces a worker.
SupervisorSpawn_no_restart ==
    /\ sup = "running"
    /\ permits > 0
    /\ exit_paths = {}
    /\ \E w \in WorkerSlots :
         /\ wk[w].pc = "none"
         /\ \A v \in WorkerSlots : v < w => wk[v].pc # "none"
         /\ wk' = [wk EXCEPT ![w] = [NoWorker EXCEPT !.pc = "spawned"]]
    /\ permits' = permits - 1
    /\ spawn_parity' = 1 - spawn_parity
    /\ UNCHANGED <<non_client_vars, max_conn_count, max_conn, count, sup, sup_rx,
                   shutdown_sent, exit_paths>>

\* Supervisor, acquire branch of select!: a permit is free, a worker is
\* spawned with a receiver subscribed at this moment (line 184).
SupervisorSpawn ==
    /\ sup = "running"
    /\ permits > 0
    /\ \E w \in WorkerSlots :
         /\ wk[w].pc = "none"
         /\ \A v \in WorkerSlots : v < w => wk[v].pc # "none"
         /\ wk' = [wk EXCEPT ![w] = [NoWorker EXCEPT !.pc = "spawned"]]
    /\ permits' = permits - 1
    /\ spawn_parity' = 1 - spawn_parity
    /\ UNCHANGED <<non_client_vars, max_conn_count, max_conn, count, sup, sup_rx,
                   shutdown_sent, exit_paths>>

\* A shutdown branch that logs the signal and goes round the loop again.
SupervisorShutdown_resumes_loop ==
    /\ sup = "running"
    /\ sup_rx
    /\ sup_rx' = FALSE
    /\ UNCHANGED <<non_client_vars, spawn_parity, max_conn_count, max_conn, count, permits, wk,
                   sup, shutdown_sent, exit_paths>>

\* Supervisor, shutdown branch of select!: the task returns.
SupervisorShutdown ==
    /\ sup = "running"
    /\ sup_rx
    /\ sup' = "returned"
    /\ sup_rx' = FALSE
    /\ UNCHANGED <<non_client_vars, spawn_parity, max_conn_count, max_conn, count, permits, wk,
                   shutdown_sent, exit_paths>>

\* The worker's task ends: its sockets are dropped and drop(permit) runs.
WorkerExit(w, path) ==
    /\ wk' = [wk EXCEPT ![w] = NoWorker]
    /\ permits' = permits + 1
    /\ exit_paths' = exit_paths \cup {path}
    /\ UNCHANGED <<non_client_vars, spawn_parity, max_conn_count, max_conn, count, sup, sup_rx,
                   shutdown_sent>>

\* A failure path that gives the permit back before the sleep.
WorkerFail_releases_permit(w) ==
    /\ wk' = [wk EXCEPT ![w] = [NoWorker EXCEPT !.pc = "backoff", !.rx = wk[w].rx]]
    /\ permits' = permits + 1
    /\ UNCHANGED <<non_client_vars, spawn_parity, max_conn_count, max_conn, count,
                   sup, sup_rx,
                   shutdown_sent, exit_paths>>

\* handle_connection returned Err: its sockets are dropped and the worker
\* sleeps 10 s, keeping its permit.
WorkerFail(w) ==
    /\ wk' = [wk EXCEPT ![w] = [NoWorker EXCEPT !.pc = "backoff", !.rx = wk[w].rx]]
    /\ UNCHANGED <<non_client_vars, spawn_parity, max_conn_count, max_conn, count, permits,
                   sup, sup_rx,
                   shutdown_sent, exit_paths>>

\* First poll of handle_connection: the connect to the agent-pool port starts.
WorkerStartDial(w) ==
    /\ wk[w].pc = "spawned"
    /\ wk' = [wk EXCEPT ![w].pc = "dial_remote", ![w].remote = "connecting"]
    /\ UNCHANGED <<non_client_vars, spawn_parity, max_conn_count, max_conn, count, permits,
                   sup, sup_rx,
                   shutdown_sent, exit_paths>>

\* The agent connect succeeded: the connect to the local service starts.
RemoteConnectOk(w) ==
    /\ wk[w].pc = "dial_remote"
    /\ wk' = [wk EXCEPT ![w].pc = "dial_local", ![w].remote = "open",
                        ![w].local = "connecting"]
    /\ UNCHANGED <<non_client_vars, spawn_parity, max_conn_count, max_conn, count, permits,
                   sup, sup_rx,
                   shutdown_sent, exit_paths>>

\* A failed agent connect that is ignored: the worker dials the local service.
RemoteConnectErr_dials_local(w) ==
    /\ wk[w].pc = "dial_remote"
    /\ wk' = [wk EXCEPT ![w].pc = "dial_local", ![w].remote = "closed",
                        ![w].local = "connecting"]
    /\ UNCHANGED <<non_client_vars, spawn_parity, max_conn_count, max_conn, count, permits,
                   sup, sup_rx,
                   shutdown_sent, exit_paths>>

\* The connect to the agent-pool port failed.
RemoteConnectErr(w) ==
    /\ wk[w].pc = "dial_remote"
    /\ WorkerFail(w)

\* The local connect succeeded and set_tcp_keepalive succeeded: the pump runs.
LocalConnectOk(w) ==
    /\ wk[w].pc = "dial_local"
    /\ wk' = [wk EXCEPT ![w].pc = "pump", ![w].local = "open",
                        ![w].keepalive = TRUE]
    /\ UNCHANGED <<non_client_vars, spawn_parity, max_conn_count, max_conn, count, permits,
                   sup, sup_rx,
                   shutdown_sent, exit_paths>>

\* The local connect failed, or it succeeded and set_tcp_keepalive failed.
LocalConnectErr(w) ==
    /\ wk[w].pc = "dial_local"
    /\ WorkerFail(w)

\* copy_bidirectional returned Ok.
PumpOk(w) ==
    /\ wk[w].pc = "pump"
    /\ WorkerExit(w, "ok")

\* copy_bidirectional returned Err.
PumpErr(w) ==
    /\ wk[w].pc = "pump"
    /\ WorkerFail(w)

\* The 10 s sleep is over.
BackoffElapsed(w) ==
    /\ wk[w].pc = "backoff"
    /\ WorkerExit(w, "err")

\* The shutdown branch returning without giving its permit back.
WorkerShutdown_keeps_permit(w) ==
    /\ InSelect(w)
    /\ wk[w].rx
    /\ wk' = [wk EXCEPT ![w] = NoWorker]
    /\ exit_paths' = exit_paths \cup {"shutdown"}
    /\ UNCHANGED <<non_client_vars, spawn_parity, max_conn_count, max_conn, count, permits,
                   sup, sup_rx,
                   shutdown_sent>>

\* Worker, shutdown branch of select!: handle_connection is dropped.
WorkerShutdown(w) ==
    /\ InSelect(w)
    /\ wk[w].rx
    /\ WorkerExit(w, "shutdown")

ClientNext ==
    \/ tunnel_to_endpoint
    \/ Broadcast
    \/ SupervisorSpawn
    \/ SupervisorShutdown
    \/ \E w \in WorkerSlots : WorkerStartDial(w)
    \/ \E w \in WorkerSlots : RemoteConnectOk(w)
    \/ \E w \in WorkerSlots : RemoteConnectErr(w)
    \/ \E w \in WorkerSlots : LocalConnectOk(w)
    \/ \E w \in WorkerSlots : LocalConnectErr(w)
    \/ \E w \in WorkerSlots : PumpOk(w)
    \/ \E w \in WorkerSlots : PumpErr(w)
    \/ \E w \in WorkerSlots : BackoffElapsed(w)
    \/ \E w \in WorkerSlots : WorkerShutdown(w)

----------------------------------------------------------------------------
(* Server: the endpoint allocator, GET /{endpoint}?credential=...           *)
(* Text is a sequence of characters; "credential=" and each credential     *)
(* value stand as one element.  An Option is <<>> (None) or <<v>> (Some).  *)

Lower == {"a", "b", "c", "d", "e", "f", "g", "h", "i", "j", "k", "l", "m",
          "n", "o", "p", "q", "r", "s", "t", "u", "v", "w", "x", "y", "z"}
Digit == {"0", "1", "2", "3", "4", "5", "6", "7", "8", "9"}

\* The {0,61} of the subdomain grammar.
MaxMiddle == 61

\* validate_endpoint: ^[a-z0-9](?:[a-z0-9-]{0,61}[a-z0-9])?$
validate_endpoint(endpoint) ==
    /\ Len(endpoint) >= 1
    /\ endpoint[1] \in Lower \cup Digit
    /\ \/ Len(endpoint) = 1
       \/ /\ Len(endpoint) - 2 <= MaxMiddle
          /\ \A i \in 2 .. (Len(endpoint) - 1) :
                endpoint[i] \in Lower \cup Digit \cup {"-"}
          /\ endpoint[Len(endpoint)] \in Lower \cup Digit

\* The sentinel the client asks for when no subdomain is configured.
NewSentinel == <<"?", "n", "e", "w">>

Contains(seq, ch) == \E i \in 1 .. Len(seq) : seq[i] = ch

\* get_tunnel_endpoint: the request URI after the server's base URL.
BuildUri(subdomain, credential) ==
    LET assigned_domain == IF subdomain = <<>> THEN NewSentinel ELSE subdomain[1]
        uri == <<"/">> \o assigned_domain
        separator == IF Contains(uri, "?") THEN "&" ELSE "?"
    IN  IF credential = <<>>
        THEN uri
        ELSE uri \o <<separator, "credential=", credential[1]>>

\* Position of the first "?" of a URI, Len + 1 when there is none.
QueryStart(uri) ==
    IF Contains(uri, "?")
    THEN CHOOSE i \in 1 .. Len(uri) :
            uri[i] = "?" /\ \A j \in 1 .. (i - 1) : uri[j] # "?"
    ELSE Len(uri) + 1

PercentDecode(ch) == IF ch = "%3F" THEN "?" ELSE ch

\* web::Path<String> of the route "/{endpoint}": the percent-decoded path
\* after the leading "/"; <<>> when the path is "/" (the route does not match).
PathEndpoint(uri) ==
    [i \in 1 .. (QueryStart(uri) - 2) |-> PercentDecode(uri[i + 1])]

\* web::Query<AuthInfo>: the value of the query parameter "credential".
QueryCredential(uri) ==
    LET q == QueryStart(uri)
        at == {i \in (q + 1) .. (Len(uri) - 1) :
                 uri[i] = "credential=" /\ uri[i - 1] \in {"?", "&"}}
    IN  IF at = {} THEN <<>> ELSE <<uri[(CHOOSE i \in at : TRUE) + 1]>>

\* The route "/{endpoint}" matches a path of one non-empty segment.
RouteMatches(uri) ==
    /\ PathEndpoint(uri) # <<>>
    /\ ~Contains(PathEndpoint(uri), "/")

AuthModes == {"NOAUTH", "CLOUDFLARE", "PLAINTEXT"}

CloudflareSecrets == {"cloudflare_account", "cloudflare_namespace",
                      "cloudflare_auth_email", "cloudflare_auth_key"}

\* A password check that only looks whether a password is configured.
PlaintextPassword_accepts_any(credential, config) ==
    IF config.plaintext_password = <<>> THEN "Err" ELSE "true"

\* PlaintextPassword::credential_is_valid
PlaintextPassword_credential_is_valid(credential, config) ==
    IF config.plaintext_password = <<>>
    THEN "Err"
    ELSE IF credential = config.plaintext_password[1] THEN "true" ELSE "false"

\* CfWorkerStore::credential_is_valid; resp is the body the key-value store
\* answered for the key, <<>> when the HTTP call failed.
CfWorkerStore_credential_is_valid(credential, resp, config) ==
    IF \E f \in CloudflareSecrets : config[f] = <<>>
    THEN "Err"
    ELSE IF resp = <<>>
         THEN "Err"
         ELSE IF credential = resp[1] THEN "true" ELSE "false"

\* validate_credentials: "Ok(true)", "Ok(false)", "Err(401)" or "Err(500)".
validate_credentials(credential, resp, mode, config) ==
    IF mode = "NOAUTH"
    THEN "Ok(true)"
    ELSE IF credential = <<>>
         THEN "Err(401)"
         ELSE LET credential_is_valid ==
                      IF mode = "CLOUDFLARE"
                      THEN CfWorkerStore_credential_is_valid(credential[1], resp, config)
                      ELSE PlaintextPassword_credential_is_valid(credential[1], config)
              IN  IF credential_is_valid = "Err"
                  THEN "Err(500)"
                  ELSE IF credential_is_valid = "true" THEN "Ok(true)" ELSE "Ok(false)"

\* State.domain and State.max_sockets (the --max-sockets default).
Domain == "test.local"
DefaultMaxSockets == 10

\* A descriptor whose url ignores State.secure.
ProxyInfo_always_http(endpoint, port) ==
    [id |-> endpoint,
     port |-> port,
     max_conn_count |-> DefaultMaxSockets,
     url |-> <<"http", "://", endpoint, ".", Domain>>]

\* The descriptor of a 200 response.
ProxyInfo(endpoint, port) ==
    [id |-> endpoint,
     port |-> port,
     max_conn_count |-> DefaultMaxSockets,
     url |-> <<IF secure THEN "https" ELSE "http", "://", endpoint, ".", Domain>>]

\* Concurrent request_endpoint handlers, and the ports the OS can hand out.
MaxHandlers == 2
MaxPorts == 2
Ports == 1 .. MaxPorts

\* Requests: what `client --subdomain S --credential C` sends, for these
\* subdomains (none configured: the sentinel) and credentials.
Credentials == {"hunter2", "s3cret"}
RequestLabels == {<<"a">>, <<"b", "-", "0">>, <<"A">>, <<"%3F", "n", "e", "w">>}
RequestUris ==
    {BuildUri(s, c) : s \in {<<>>} \cup {<<l>> : l \in RequestLabels},
                      c \in {<<>>} \cup {<<c>> : c \in Credentials}}

\* The remote key-value store: the credential stored under each key.
KvValue(key) == IF key = <<"a">> THEN "hunter2" ELSE "s3cret"

\* The outcomes of the HTTP GET to the key-value store: failure, or the body.
KvReplies(key) == {<<>>, <<KvValue(key)>>}

NoSecrets ==
    [plaintext_password |-> <<>>, cloudflare_account |-> <<>>,
     cloudflare_namespace |-> <<>>, cloudflare_auth_email |-> <<>>,
     cloudflare_auth_key |-> <<>>]

\* Config with the Cloudflare secrets set except those in `missing`.
CloudflareConfig(missing) ==
    [f \in DOMAIN NoSecrets |->
        IF f \in CloudflareSecrets \ missing THEN <<"set">> ELSE <<>>]

\* The configurations a server is run with: for each auth mode, the secrets
\* that mode reads, present or absent.
ServerConfigs ==
    {<<"NOAUTH", NoSecrets>>}
    \cup {<<"PLAINTEXT", [NoSecrets EXCEPT !.plaintext_password = p]>> :
             p \in {<<>>, <<"hunter2">>}}
    \cup {<<"CLOUDFLARE", CloudflareConfig(m)>> :
             m \in {{}} \cup {{f} : f \in CloudflareSecrets}}

\* A request_endpoint handler in flight: the extracted path and query
\* (endpoint, info.credential), the result of validate_credentials, and the
\* response.  Handlers have no identity: hd is the bag of their records.
NewHandler == [pc |-> "auth", endpoint |-> <<>>, credential |-> <<>>,
               auth |-> "", status |-> 0, desc |-> <<>>, target |-> <<>>]

InFlight == BagToSet(hd)

\* hd with one handler's record `rec` replaced by `next`.
Step(rec, next) == (hd (-) SetToBag({rec})) (+) SetToBag({next})

ServerInit ==
    /\ \E c \in ServerConfigs : auth_mode = c[1] /\ CONFIG = c[2]
    /\ secure \in BOOLEAN
    /\ hd = EmptyBag
    /\ manager_lock = 0
    /\ tunnels = {}

\* The handler's record once it has answered.
Answered(rec, status, auth) ==
    [rec EXCEPT !.pc = "done", !.status = status, !.auth = auth]

\* Receive that hands every routed request to the Auth Gate unvalidated.
Receive_without_validation ==
    /\ BagCardinality(hd) < MaxHandlers
    /\ \E uri \in RequestUris :
         LET rec == [NewHandler EXCEPT !.endpoint = PathEndpoint(uri),
                                       !.credential = QueryCredential(uri)]
         IN  hd' = hd (+) SetToBag({IF ~RouteMatches(uri)
                                    THEN Answered(rec, 404, "")
                                    ELSE rec})
    /\ UNCHANGED <<auth_mode, CONFIG, secure, manager_lock, tunnels>>
    /\ UNCHANGED non_server_vars

\* A request arrives: routing (404 when "/{endpoint}" does not match), then
\* validate_endpoint (400 when it fails).
Receive ==
    /\ BagCardinality(hd) < MaxHandlers
    /\ \E uri \in RequestUris :
         LET rec == [NewHandler EXCEPT !.endpoint = PathEndpoint(uri),
                                       !.credential = QueryCredential(uri)]
         IN  hd' = hd (+) SetToBag({IF ~RouteMatches(uri)
                                    THEN Answered(rec, 404, "")
                                    ELSE IF ~validate_endpoint(PathEndpoint(uri))
                                         THEN Answered(rec, 400, "")
                                         ELSE rec})
    /\ UNCHANGED <<auth_mode, CONFIG, secure, manager_lock, tunnels>>
    /\ UNCHANGED non_server_vars

\* An Auth Gate that answers 401 on every failure of the credential check.
AuthStep_error_as_401(r) ==
    /\ r.pc = "auth"
    /\ \E resp \in KvReplies(r.endpoint) :
         LET res == validate_credentials(r.credential, resp, auth_mode, CONFIG)
             rec == [r EXCEPT !.credential = <<>>]
         IN  hd' = Step(r, IF res = "Ok(true)"
                           THEN [rec EXCEPT !.pc = "lock", !.auth = res]
                           ELSE Answered(rec, 401, res))
    /\ UNCHANGED <<auth_mode, CONFIG, secure, manager_lock, tunnels>>
    /\ UNCHANGED non_server_vars

\* The Auth Gate: validate_credentials and the handler's match on its
\* result.  The query is not read again afterwards.
AuthStep(r) ==
    /\ r.pc = "auth"
    /\ \E resp \in KvReplies(r.endpoint) :
         LET res == validate_credentials(r.credential, resp, auth_mode, CONFIG)
             rec == [r EXCEPT !.credential = <<>>]
         IN  hd' = Step(r, IF res = "Ok(true)"
                           THEN [rec EXCEPT !.pc = "lock", !.auth = res]
                           ELSE IF res = "Err(500)"
                                THEN Answered(rec, 500, res)
                                ELSE Answered(rec, 401, res))
    /\ UNCHANGED <<auth_mode, CONFIG, secure, manager_lock, tunnels>>
    /\ UNCHANGED non_server_vars

\* A manager mutex that lets every handler in.
LockFree_always == TRUE

\* state.manager.lock() can be acquired.
LockFree == manager_lock = 0

\* state.manager.lock().await: the guard is held until the handler returns.
LockStep(r) ==
    /\ r.pc = "lock"
    /\ LockFree
    /\ manager_lock' = 1
    /\ hd' = Step(r, [r EXCEPT !.pc = "put"])
    /\ UNCHANGED <<auth_mode, CONFIG, secure, tunnels>>
    /\ UNCHANGED non_server_vars

\* The argument of manager.put: endpoint.to_string().
PutKey(r) == r.endpoint

\* manager.put, the subdomain it serves: a generated one for the sentinel.
put_target(subdomain, generated) ==
    IF subdomain = NewSentinel THEN generated ELSE subdomain

\* Subdomains manager.put generates.
GeneratedLabels == {<<"g", "1">>, <<"g", "2">>}

\* manager.put, lookup: the live Tunnels of a subdomain.
put_lookup(subdomain) == {t \in tunnels : t.sub = subdomain}

\* manager.put, create: the registry with a new Tunnel on `port`.
put_insert(subdomain, port) == tunnels \cup {[sub |-> subdomain, port |-> port]}

\* Ports no live Tunnel is bound to.
FreePorts == Ports \ {t.port : t \in tunnels}

\* A 200 response whose port field is the manager's tunnel count.
Respond200_reports_tunnel_count(r, port) ==
    /\ hd' = Step(r, [Answered(r, 200, r.auth) EXCEPT
                        !.desc = <<ProxyInfo(r.endpoint, Cardinality(tunnels'))>>])
    /\ manager_lock' = 0

\* Ok(port): the 200 response and the release of the manager's guard.
Respond200(r, port) ==
    /\ hd' = Step(r, [Answered(r, 200, r.auth) EXCEPT
                        !.desc = <<ProxyInfo(r.endpoint, port)>>])
    /\ manager_lock' = 0

\* manager.put finds the subdomain's live Tunnel and returns its port, or
\* goes on to create one.
PutLookup(r) ==
    /\ r.pc = "put"
    /\ \E generated \in GeneratedLabels :
         LET target == put_target(PutKey(r), generated)
         IN  IF put_lookup(target) # {}
             THEN /\ UNCHANGED tunnels
                  /\ \E t \in put_lookup(target) : Respond200(r, t.port)
             ELSE /\ hd' = Step(r, [r EXCEPT !.pc = "create", !.target = target])
                  /\ UNCHANGED <<manager_lock, tunnels>>
    /\ UNCHANGED <<auth_mode, CONFIG, secure>>
    /\ UNCHANGED non_server_vars

\* manager.put binds a fresh port, inserts the Tunnel and returns Ok(port).
PutCreate(r) ==
    /\ r.pc = "create"
    /\ \E port \in FreePorts :
         /\ tunnels' = put_insert(r.target, port)
         /\ Respond200(r, port)
    /\ UNCHANGED <<auth_mode, CONFIG, secure>>
    /\ UNCHANGED non_server_vars

\* manager.put returns Err: the handler answers 500.
PutFail(r) ==
    /\ r.pc = "create"
    /\ hd' = Step(r, Answered(r, 500, r.auth))
    /\ manager_lock' = 0
    /\ UNCHANGED <<auth_mode, CONFIG, secure, tunnels>>
    /\ UNCHANGED non_server_vars

\* The response has been delivered and the handler is gone.
Finish(r) ==
    /\ r.pc = "done"
    /\ hd' = hd (-) SetToBag({r})
    /\ UNCHANGED <<auth_mode, CONFIG, secure, manager_lock, tunnels>>
    /\ UNCHANGED non_server_vars

\* manager.remove / reap_idle: a Tunnel is torn down, under the manager lock.
\* The 200 responses that named it have been delivered by then.
Remove ==
    /\ manager_lock = 0
    /\ \E t \in tunnels :
         /\ tunnels' = {u \in tunnels : u.sub # t.sub}
         /\ hd' = [r \in {x \in InFlight : ~(x.desc # <<>> /\ x.endpoint = t.sub)}
                     |-> hd[r]]
    /\ UNCHANGED <<auth_mode, CONFIG, secure, manager_lock>>
    /\ UNCHANGED non_server_vars

ServerNext ==
    \/ Receive
    \/ \E r \in InFlight : AuthStep(r)
    \/ \E r \in InFlight : LockStep(r)
    \/ \E r \in InFlight : PutLookup(r)
    \/ \E r \in InFlight : PutCreate(r)
    \/ \E r \in InFlight : PutFail(r)
    \/ \E r \in InFlight : Finish(r)
    \/ Remove

\* Characters and the longest length of the subdomains of BoundaryLabels.
BoundaryChars == {"a", "0", "-", "A"}
MaxLabelLen == 64

\* The text of length n that starts with f, ends with l and has m between.
Shaped(f, m, l, n) ==
    [i \in 1 .. n |-> IF i = 1 THEN f ELSE IF i = n THEN l ELSE m]

\* Subdomains at the boundaries of the grammar: the empty one, every length
\* up to MaxLabelLen, each kind of character first, inside and last.
BoundaryLabels ==
    {<<>>, <<"d", "e", "m", "o">>, <<"1", "2", "3">>, <<"-", "x">>, <<"x", "-">>}
    \cup {Shaped(f, m, l, n) : f \in BoundaryChars, m \in BoundaryChars,
                               l \in BoundaryChars, n \in 1 .. MaxLabelLen}

\* One request at a time for a boundary subdomain, sent without credential:
\* routing, then validate_endpoint, as in Receive.
ReceiveBoundary ==
    /\ hd = EmptyBag
    /\ tunnels = {}
    /\ \E label \in BoundaryLabels :
         LET uri == BuildUri(<<label>>, <<>>)
             rec == [NewHandler EXCEPT !.endpoint = PathEndpoint(uri),
                                       !.credential = QueryCredential(uri)]
         IN  hd' = hd (+) SetToBag({IF ~RouteMatches(uri)
                                    THEN Answered(rec, 404, "")
                                    ELSE IF ~validate_endpoint(PathEndpoint(uri))
                                         THEN Answered(rec, 400, "")
                                         ELSE rec})
    /\ UNCHANGED <<auth_mode, CONFIG, secure, manager_lock, tunnels>>
    /\ UNCHANGED non_server_vars

GrammarNext ==
    \/ ReceiveBoundary
    \/ \E r \in InFlight : AuthStep(r)
    \/ \E r \in InFlight : LockStep(r)
    \/ \E r \in InFlight : PutLookup(r)
    \/ \E r \in InFlight : PutCreate(r)
    \/ \E r \in InFlight : PutFail(r)
    \/ \E r \in InFlight : Finish(r)
    \/ Remove

----------------------------------------------------------------------------
(* Client: open_tunnel and its allocation call, get_tunnel_endpoint.       *)
(* A URL is a sequence of tokens: scheme, "://", "user", "@", host, ":",   *)
(* port, "/" and path segments.                                            *)

PROXY_SERVER == <<"https", "://", "localtunnel.me">>
LOCAL_HOST == <<"127.0.0.1">>

\* ProxyResponse.max_conn_count when the body has none.
default_max_conn_count == 1

\* str::trim_end_matches
RECURSIVE trim_end_matches(_, _)
trim_end_matches(text, ch) ==
    IF text # <<>> /\ text[Len(text)] = ch
    THEN trim_end_matches(SubSeq(text, 1, Len(text) - 1), ch)
    ELSE text

\* Position of the first ch in text at or after position from; Len + 1
\* when there is none.
Find(text, ch, from) ==
    IF \E i \in from .. Len(text) : text[i] = ch
    THEN CHOOSE i \in from .. Len(text) :
            text[i] = ch /\ \A j \in from .. (i - 1) : text[j] # ch
    ELSE Len(text) + 1

\* Url::parse and Url::host_str.  An http(s) URL has an authority, whose
\* host stands after the userinfo and before the port; scheme:rest parses
\* with no host; anything else is a relative URL and does not parse.
UrlParse(text) ==
    IF Len(text) >= 2 /\ text[1] \in {"http", "https"} /\ text[2] = "://"
    THEN LET authority == SubSeq(text, 3, Find(text, "/", 3) - 1)
             at == Find(authority, "@", 1)
             hostport == IF at <= Len(authority)
                         THEN SubSeq(authority, at + 1, Len(authority))
                         ELSE authority
             host == SubSeq(hostport, 1, Find(hostport, ":", 1) - 1)
         IN  IF host = <<>>
             THEN [ok |-> FALSE, host |-> <<>>]
             ELSE [ok |-> TRUE, host |-> <<host>>]
    ELSE IF Len(text) >= 2 /\ text[2] = ":" /\ text[1] \notin {"http", "https"}
         THEN [ok |-> TRUE, host |-> <<>>]
         ELSE [ok |-> FALSE, host |-> <<>>]

\* parse_remote_host: Some(host) as <<host>>, None as <<>>.
parse_remote_host(text) ==
    IF UrlParse(text).ok /\ UrlParse(text).host # <<>>
    THEN UrlParse(text).host
    ELSE LET sep == Find(text, "://", 1)
             remainder == IF sep <= Len(text)
                          THEN SubSeq(text, sep + 1, Len(text))
                          ELSE text
             host == SubSeq(remainder, 1, Find(remainder, "/", 1) - 1)
         IN  IF host = <<>> THEN <<>> ELSE <<host>>

\* The servers a client is configured with.
ServerUrls ==
    {<<"http", "://", "127.0.0.1", ":", "3000">>,
     <<"https", "://", "lt.example", "/">>,
     <<"http", "://", "user", "@", "lt.example", ":", "3000", "/", "/">>,
     <<"http", "://", "lt.example", "/", "base">>,
     <<"lt.example", ":", "3000">>}

\* get_tunnel_endpoint, its `server`: the configured one or PROXY_SERVER,
\* trailing slashes trimmed.
EffectiveServer ==
    trim_end_matches(IF server = <<>> THEN PROXY_SERVER ELSE server[1], "/")

\* Response bodies.  A JSON body gives each field as <<v>>, or <<>> when
\* the field is absent.
TextBody == [json |-> FALSE, id |-> <<>>, port |-> <<>>, url |-> <<>>,
             max_conn_count |-> <<>>, ip |-> <<>>]

DescriptorBodies ==
    {[json |-> TRUE, id |-> <<"a">>, port |-> <<p>>, url |-> <<"http://a.test.local">>,
      max_conn_count |-> m, ip |-> i] :
        p \in {7001}, m \in {<<>>, <<1>>}, i \in {<<>>, <<<<"10.0.0.9">>>>}}

\* What reqwest::get(uri) can bring back: an error (always, for a uri that
\* is no http(s) URL), the answers of the allocator (200 with a descriptor,
\* 400, 401, 404, 500 with a text body), and answers of other servers (a
\* descriptor without port, a descriptor under an error status).
Replies(uri) ==
    {[err |-> TRUE, status |-> 0, body |-> TextBody]}
    \cup (IF UrlParse(uri).ok /\ UrlParse(uri).host # <<>>
          THEN {[err |-> FALSE, status |-> 200, body |-> b] : b \in DescriptorBodies}
               \cup {[err |-> FALSE, status |-> st, body |-> TextBody] :
                        st \in {200, 400, 401, 404, 500}}
               \cup {[err |-> FALSE, status |-> 200,
                      body |-> [b EXCEPT !.port = <<>>]] : b \in DescriptorBodies}
               \cup {[err |-> FALSE, status |-> 500, body |-> b] :
                        b \in DescriptorBodies}
          ELSE {})

\* Response::json::<ProxyResponse>: <<>> when the body does not parse.
ProxyResponse(body) ==
    IF body.json /\ body.id # <<>> /\ body.port # <<>> /\ body.url # <<>>
    THEN <<[id |-> body.id[1], port |-> body.port[1], url |-> body.url[1],
            max_conn_count |-> IF body.max_conn_count = <<>>
                               THEN default_max_conn_count
                               ELSE body.max_conn_count[1],
            ip |-> body.ip]>>
    ELSE <<>>

\* The TunnelServerInfo built from a parsed response.
TunnelServerInfo(srv, resp) ==
    [remote_host |-> IF parse_remote_host(srv) = <<>>
                     THEN LOCAL_HOST
                     ELSE parse_remote_host(srv)[1],
     remote_port |-> resp.port,
     remote_ip |-> resp.ip,
     max_conn_count |-> resp.max_conn_count,
     url |-> resp.url]

\* A get_tunnel_endpoint that goes on with an empty descriptor when the
\* call failed.
get_tunnel_endpoint_or_default(srv, reply) ==
    IF reply.err \/ ProxyResponse(reply.body) = <<>>
    THEN <<TunnelServerInfo(srv, [id |-> "", port |-> 0, url |-> "",
                                  max_conn_count |-> default_max_conn_count,
                                  ip |-> <<>>])>>
    ELSE <<TunnelServerInfo(srv, ProxyResponse(reply.body)[1])>>

\* get_tunnel_endpoint, from the reply on: Ok(info) as <<info>>, Err as <<>>.
get_tunnel_endpoint(srv, reply) ==
    IF reply.err
    THEN <<>>
    ELSE IF ProxyResponse(reply.body) = <<>>
         THEN <<>>
         ELSE <<TunnelServerInfo(srv, ProxyResponse(reply.body)[1])>>

\* handle_connection dialing the control-plane host whatever the descriptor
\* says.
target_host_ignores_ip(info) == info.remote_host

\* handle_connection: remote_ip.unwrap_or(remote_host)
target_host(info) ==
    IF info.remote_ip # <<>> THEN info.remote_ip[1] ELSE info.remote_host

\* handle_connection: the address of its first TcpStream::connect.
agent_address(info) == target_host(info) \o <<":", info.remote_port>>

\* open_tunnel is called with max_conn = 1 and any of the servers.
OpenTunnelInit ==
    /\ open_tunnel_pc = "start"
    /\ server \in {<<>>} \cup {<<u>> : u \in ServerUrls}
    /\ request_uri = <<>>
    /\ proxy_resp = <<>>
    /\ tunnel_info = <<>>
    /\ max_conn_count = 0
    /\ max_conn = 1
    /\ count = 0
    /\ permits = 0
    /\ sup = "none"
    /\ sup_rx = FALSE
    /\ wk = [w \in WorkerSlots |-> NoWorker]
    /\ shutdown_sent = FALSE
    /\ exit_paths = {}
    /\ spawn_parity = 0

\* get_tunnel_endpoint up to reqwest::get: the uri is built and requested.
SendRequest ==
    /\ open_tunnel_pc = "start"
    /\ \E subdomain \in {<<>>, <<<<"a">>>>}, credential \in {<<>>, <<"hunter2">>} :
          request_uri' = EffectiveServer \o BuildUri(subdomain, credential)
    /\ open_tunnel_pc' = "requesting"
    /\ UNCHANGED <<client_vars, server_vars, validated, pool_vars, server,
                   proxy_resp, tunnel_info>>

\* The reply arrives: get_tunnel_endpoint returns and open_tunnel either
\* returns its error (the `?`) or goes on to tunnel_to_endpoint.
ReceiveReply ==
    /\ open_tunnel_pc = "requesting"
    /\ \E reply \in Replies(request_uri) :
          LET res == get_tunnel_endpoint(EffectiveServer, reply)
          IN  /\ proxy_resp' = reply
              /\ IF res = <<>>
                 THEN /\ open_tunnel_pc' = "returned_err"
                      /\ UNCHANGED <<tunnel_info, max_conn_count>>
                 ELSE /\ open_tunnel_pc' = "allocated"
                      /\ tunnel_info' = res[1]
                      /\ max_conn_count' = res[1].max_conn_count
    /\ UNCHANGED <<server_vars, validated, pool_vars, server, request_uri,
                   max_conn, count, permits, sup, sup_rx, wk, shutdown_sent,
                   exit_paths, spawn_parity>>

\* open_tunnel after tunnel_to_endpoint: the password fetch is best effort,
\* then Ok(url) is returned.
OpenTunnelReturn ==
    /\ open_tunnel_pc = "allocated"
    /\ sup # "none"
    /\ open_tunnel_pc' = "returned_ok"
    /\ UNCHANGED <<client_vars, server_vars, validated, pool_vars, server,
                   request_uri, proxy_resp, tunnel_info>>

OpenTunnelNext ==
    \/ SendRequest
    \/ ReceiveReply
    \/ OpenTunnelReturn
    \/ ClientNext

----------------------------------------------------------------------------
(* Server startup: auth::validate on the selected mode and the Config.     *)

\* Every Config: each secret present or absent.
AllConfigs == [DOMAIN NoSecrets -> {<<>>, <<"set">>}]

\* A validate that does not look at CLOUDFLARE_AUTH_KEY.
validate_skips_auth_key(mode, config) ==
    IF mode = "PLAINTEXT"
    THEN IF config.plaintext_password = <<>> THEN "Err" ELSE "Ok"
    ELSE IF mode = "CLOUDFLARE"
         THEN LET m1 == IF config.cloudflare_account = <<>>
                        THEN <<"CLOUDFLARE_ACCOUNT">> ELSE <<>>
                  m2 == IF config.cloudflare_namespace = <<>>
                        THEN Append(m1, "CLOUDFLARE_NAMESPACE") ELSE m1
                  missing == IF config.cloudflare_auth_email = <<>>
                             THEN Append(m2, "CLOUDFLARE_AUTH_EMAIL") ELSE m2
              IN  IF missing # <<>> THEN "Err" ELSE "Ok"
         ELSE "Ok"

\* auth::validate: "Ok" or "Err".
validate(mode, config) ==
    IF mode = "PLAINTEXT"
    THEN IF config.plaintext_password = <<>> THEN "Err" ELSE "Ok"
    ELSE IF mode = "CLOUDFLARE"
         THEN LET m1 == IF config.cloudflare_account = <<>>
                        THEN <<"CLOUDFLARE_ACCOUNT">> ELSE <<>>
                  m2 == IF config.cloudflare_namespace = <<>>
                        THEN Append(m1, "CLOUDFLARE_NAMESPACE") ELSE m1
                  m3 == IF config.cloudflare_auth_email = <<>>
                        THEN Append(m2, "CLOUDFLARE_AUTH_EMAIL") ELSE m2
                  missing == IF config.cloudflare_auth_key = <<>>
                             THEN Append(m3, "CLOUDFLARE_AUTH_KEY") ELSE m3
              IN  IF missing # <<>> THEN "Err" ELSE "Ok"
         ELSE "Ok"

\* The process starts with any auth mode and any Config.
StartupInit ==
    /\ auth_mode \in AuthModes
    /\ CONFIG \in AllConfigs
    /\ validated = ""
    /\ secure = FALSE
    /\ hd = EmptyBag
    /\ manager_lock = 0
    /\ tunnels = {}

\* Startup calls auth::validate once.
Startup ==
    /\ validated = ""
    /\ validated' = validate(auth_mode, CONFIG)
    /\ UNCHANGED <<client_vars, server_vars, pool_vars, alloc_vars>>

----------------------------------------------------------------------------
(* Server: the Agent Socket Pool of one Tunnel, after the design document  *)
(* (accept_loop, take, shutdown; the pump's completion).  Agent sockets    *)
(* are numbered in the order they are accepted.                            *)

\* Largest capacity, agent sockets that connect, user acceptor tasks.
MaxCapacity == 2
MaxAgents == 4
MaxUsers == 3

Users == 1 .. MaxUsers

Range(seq) == {seq[i] : i \in 1 .. Len(seq)}

PoolInit ==
    /\ pool_capacity \in 1 .. MaxCapacity
    /\ pool_open = TRUE
    /\ pool_accepted = 0
    /\ pool_waiting = <<>>
    /\ pool_dead = {}
    /\ pool_paired = {}
    /\ pool_closed = {}
    /\ pool_rejected = {}
    /\ pool_taker = [u \in Users |-> "idle"]
    /\ pool_handed = <<>>

\* The live count: waiting plus paired.
pool_live_count == Len(pool_waiting) + Cardinality(pool_paired)

\* An accept_loop that enqueues whatever it accepts.
pool_has_room_always == TRUE

\* accept_loop: current live count < capacity.
pool_has_room == pool_live_count < pool_capacity

\* accept_loop, one accepted agent socket: enqueued, or closed at once.
Accept ==
    /\ pool_open
    /\ pool_accepted < MaxAgents
    /\ pool_accepted' = pool_accepted + 1
    /\ IF pool_has_room
       THEN /\ pool_waiting' = Append(pool_waiting, pool_accepted + 1)
            /\ UNCHANGED <<pool_closed, pool_rejected>>
       ELSE /\ pool_closed' = pool_closed \cup {pool_accepted + 1}
            /\ pool_rejected' = pool_rejected \cup {pool_accepted + 1}
            /\ UNCHANGED pool_waiting
    /\ UNCHANGED <<pool_capacity, pool_open, pool_dead, pool_paired, pool_taker,
                   pool_handed>>
    /\ UNCHANGED <<client_vars, server_vars, validated, alloc_vars>>

\* The peer of a Waiting socket closes it; the pool sees it on validation.
PeerClose(s) ==
    /\ s \in Range(pool_waiting) \ pool_dead
    /\ pool_dead' = pool_dead \cup {s}
    /\ UNCHANGED <<pool_capacity, pool_open, pool_accepted, pool_waiting,
                   pool_paired, pool_closed, pool_rejected, pool_taker, pool_handed>>
    /\ UNCHANGED <<client_vars, server_vars, validated, alloc_vars>>

\* Liveness validation of the FIFO: a closed socket is discarded.
Discard(s) ==
    /\ s \in pool_dead
    /\ pool_waiting' = SelectSeq(pool_waiting, LAMBDA x : x # s)
    /\ pool_dead' = pool_dead \ {s}
    /\ pool_closed' = pool_closed \cup {s}
    /\ UNCHANGED <<pool_capacity, pool_open, pool_accepted, pool_paired,
                   pool_rejected, pool_taker, pool_handed>>
    /\ UNCHANGED <<client_vars, server_vars, validated, alloc_vars>>

\* The Waiting sockets take() can return.
Ready == Range(pool_waiting) \ pool_dead

\* A take() that returns the newest ready socket.
take_newest == CHOOSE s \in Ready : \A t \in Ready : t <= s

\* take(): the front of the FIFO, closed sockets before it skipped.
take_front == CHOOSE s \in Ready : \A t \in Ready : s <= t

\* A take() that returns a socket and leaves it in the FIFO.
waiting_after_take_keeps(s) == pool_waiting

\* take(): the FIFO once s was returned and the closed sockets before it
\* were discarded.
waiting_after_take(s) ==
    SelectSeq(pool_waiting, LAMBDA x : x # s /\ ~(x \in pool_dead /\ x < s))

\* take() returns: the socket leaves the FIFO and is Paired with the
\* taker's user socket.
Take(u) ==
    /\ pool_open
    /\ pool_taker[u] \in {"idle", "waiting"}
    /\ Ready # {}
    /\ LET s == take_front
           discarded == {x \in pool_dead : x < s}
       IN  /\ pool_waiting' = waiting_after_take(s)
           /\ pool_dead' = pool_dead \ discarded
           /\ pool_closed' = pool_closed \cup discarded
           /\ pool_paired' = pool_paired \cup {[agent |-> s, user |-> u]}
           /\ pool_handed' = Append(pool_handed, s)
    /\ pool_taker' = [pool_taker EXCEPT ![u] = "paired"]
    /\ UNCHANGED <<pool_capacity, pool_open, pool_accepted, pool_rejected>>
    /\ UNCHANGED <<client_vars, server_vars, validated, alloc_vars>>

\* take() finds no ready socket and suspends.
TakeWait(u) ==
    /\ pool_open
    /\ pool_taker[u] = "idle"
    /\ Ready = {}
    /\ pool_taker' = [pool_taker EXCEPT ![u] = "waiting"]
    /\ UNCHANGED <<pool_capacity, pool_open, pool_accepted, pool_waiting,
                   pool_dead, pool_paired, pool_closed, pool_rejected, pool_handed>>
    /\ UNCHANGED <<client_vars, server_vars, validated, alloc_vars>>

\* The taker's deadline passes: take() is cancelled (the user gets a 504).
TakeTimeout(u) ==
    /\ pool_taker[u] = "waiting"
    /\ pool_taker' = [pool_taker EXCEPT ![u] = "timeout"]
    /\ UNCHANGED <<pool_capacity, pool_open, pool_accepted, pool_waiting,
                   pool_dead, pool_paired, pool_closed, pool_rejected, pool_handed>>
    /\ UNCHANGED <<client_vars, server_vars, validated, alloc_vars>>

\* take() on a pool that has been shut down fails with TunnelGone.
TakeGone(u) ==
    /\ ~pool_open
    /\ pool_taker[u] = "idle"
    /\ pool_taker' = [pool_taker EXCEPT ![u] = "gone"]
    /\ UNCHANGED <<pool_capacity, pool_open, pool_accepted, pool_waiting,
                   pool_dead, pool_paired, pool_closed, pool_rejected, pool_handed>>
    /\ UNCHANGED <<client_vars, server_vars, validated, alloc_vars>>

\* The Pump of a Pairing completes: both sockets are closed.
PumpComplete(p) ==
    /\ p \in pool_paired
    /\ pool_paired' = pool_paired \ {p}
    /\ pool_closed' = pool_closed \cup {p.agent}
    /\ pool_taker' = [pool_taker EXCEPT ![p.user] = "done"]
    /\ UNCHANGED <<pool_capacity, pool_open, pool_accepted, pool_waiting,
                   pool_dead, pool_rejected, pool_handed>>
    /\ UNCHANGED <<client_vars, server_vars, validated, alloc_vars>>

\* shutdown(): the listener is closed, the Waiting sockets are drained and
\* closed, pending takers fail with TunnelGone; Paired sockets survive.
PoolShutdown ==
    /\ pool_open
    /\ pool_open' = FALSE
    /\ pool_closed' = pool_closed \cup Range(pool_waiting)
    /\ pool_waiting' = <<>>
    /\ pool_dead' = {}
    /\ pool_taker' = [u \in Users |->
                        IF pool_taker[u] = "waiting" THEN "gone" ELSE pool_taker[u]]
    /\ UNCHANGED <<pool_capacity, pool_accepted, pool_paired, pool_rejected,
                   pool_handed>>
    /\ UNCHANGED <<client_vars, server_vars, validated, alloc_vars>>

PoolNext ==
    \/ Accept
    \/ \E s \in 1 .. MaxAgents : PeerClose(s)
    \/ \E s \in 1 .. MaxAgents : Discard(s)
    \/ \E u \in Users : Take(u)
    \/ \E u \in Users : TakeWait(u)
    \/ \E u \in Users : TakeTimeout(u)
    \/ \E u \in Users : TakeGone(u)
    \/ \E p \in pool_paired : PumpComplete(p)
    \/ PoolShutdown

\* The client side while the server is studied, and the reverse.
ClientQuiet ==
    /\ max_conn_count = 0
    /\ max_conn = 0
    /\ count = 0
    /\ permits = 0
    /\ sup = "none"
    /\ sup_rx = FALSE
    /\ wk = [w \in WorkerSlots |-> NoWorker]
    /\ shutdown_sent = FALSE
    /\ exit_paths = {}
    /\ spawn_parity = 0

ServerQuiet ==
    /\ auth_mode = "NOAUTH"
    /\ CONFIG = NoSecrets
    /\ secure = FALSE
    /\ hd = EmptyBag
    /\ manager_lock = 0
    /\ tunnels = {}

StartupQuiet == validated = ""

\* The client past its allocation call, the descriptor left out of account.
AllocQuiet ==
    /\ open_tunnel_pc = "allocated"
    /\ server = <<>>
    /\ request_uri = <<>>
    /\ proxy_resp = <<>>
    /\ tunnel_info = <<>>

PoolQuiet ==
    /\ pool_capacity = 1
    /\ pool_open = FALSE
    /\ pool_accepted = 0
    /\ pool_waiting = <<>>
    /\ pool_dead = {}
    /\ pool_paired = {}
    /\ pool_closed = {}
    /\ pool_rejected = {}
    /\ pool_taker = <<>>
    /\ pool_handed = <<>>

ServerSpecInit ==
    ServerInit /\ ClientQuiet /\ StartupQuiet /\ PoolQuiet /\ AllocQuiet

ServerSpec == ServerSpecInit /\ [][ServerNext]_vars

ClientSpecInit ==
    ClientInit /\ ServerQuiet /\ StartupQuiet /\ PoolQuiet /\ AllocQuiet

ClientSpec == ClientSpecInit /\ [][ClientNext]_vars

PoolSpecInit ==
    PoolInit /\ ClientQuiet /\ ServerQuiet /\ StartupQuiet /\ AllocQuiet

PoolSpec == PoolSpecInit /\ [][PoolNext]_vars

StartupSpecInit == StartupInit /\ ClientQuiet /\ PoolQuiet /\ AllocQuiet

StartupSpec == StartupSpecInit /\ [][Startup]_vars

OpenTunnelSpecInit ==
    OpenTunnelInit /\ ServerQuiet /\ StartupQuiet /\ PoolQuiet

OpenTunnelSpec == OpenTunnelSpecInit /\ [][OpenTunnelNext]_vars

\* A server in NOAUTH mode, asked for one boundary subdomain after another.
GrammarSpecInit ==
    ServerQuiet /\ ClientQuiet /\ StartupQuiet /\ PoolQuiet /\ AllocQuiet

GrammarSpec == GrammarSpecInit /\ [][GrammarNext]_vars

\* The executor runs every ready task, a ready select! branch is taken after
\* finitely many polls, connects end (the OS times them out) and the 10 s
\* sleep ends.  The pump ends only when a peer closes, and the signal is
\* sent only if the holder of the sender decides to: neither is fair.
ClientFairness ==
    /\ WF_vars(tunnel_to_endpoint)
    /\ WF_vars(SupervisorSpawn)
    /\ WF_vars(SupervisorShutdown)
    /\ \A w \in WorkerSlots :
         /\ WF_vars(WorkerStartDial(w))
         /\ WF_vars(RemoteConnectOk(w) \/ RemoteConnectErr(w))
         /\ WF_vars(LocalConnectOk(w) \/ LocalConnectErr(w))
         /\ WF_vars(BackoffElapsed(w))
         /\ WF_vars(WorkerShutdown(w))

ClientFairSpec == ClientSpec /\ ClientFairness

----------------------------------------------------------------------------
(* Client properties *)

\* C1: the number of live worker tasks never exceeds
\* min(descriptor.max_conn_count, configured max_conn); in particular no
\* worker exists when that minimum is 0.
LiveWorkersAtMostCount ==
    /\ Cardinality(Live) <= max_conn_count
    /\ Cardinality(Live) <= max_conn

\* C1 witness: the cap is reached, and the two limits differ.
CapReached ==
    /\ sup = "running"
    /\ max_conn_count # max_conn
    /\ count > 0
    /\ Cardinality(Live) = count
    /\ permits = 0

\* C2: free permits plus permits held by live workers equals count, in
\* every state after the semaphore was created.
PermitsConserved ==
    IF sup = "none"
    THEN permits = 0 /\ Live = {}
    ELSE /\ count = IF max_conn_count <= max_conn THEN max_conn_count ELSE max_conn
         /\ permits + Cardinality(Live) = count

\* C2 witness: workers have left by all three exit paths and every permit
\* is back in the semaphore.
AllExitPathsTaken ==
    /\ exit_paths = {"ok", "err", "shutdown"}
    /\ count > 0
    /\ permits = count

\* C3: once the shutdown signal has been broadcast the supervisor spawns no
\* further worker and no worker starts a dial to the agent-pool port or to
\* the local service.
NoNewDialAfterShutdown ==
    [][shutdown_sent =>
         \A w \in WorkerSlots :
            /\ ~(wk[w].pc = "none" /\ wk'[w].pc # "none")
            /\ ~(wk[w].remote = "closed" /\ wk'[w].remote = "connecting")
            /\ ~(wk[w].local = "closed" /\ wk'[w].local = "connecting")]_vars

\* C4: after the shutdown signal is broadcast, eventually no worker is live
\* and no socket of a worker is open.
ShutdownStopsAllWorkers ==
    shutdown_sent ~>
        (\A w \in WorkerSlots :
            wk[w].pc = "none" /\ wk[w].remote = "closed" /\ wk[w].local = "closed")

\* C15: after the shutdown signal has been broadcast the supervisor task
\* eventually returns, whether permits are free or all held by workers.
SupervisorReturnsAfterShutdown ==
    shutdown_sent ~> (sup = "returned")

\* C15 witness: the supervisor has returned after the broadcast while
\* workers still hold every permit.
SupervisorReturnedPermitsHeld ==
    /\ shutdown_sent
    /\ sup = "returned"
    /\ count > 0
    /\ permits = 0
    /\ Cardinality(Live) = count

\* C16: a worker whose dial or pump failed enters the back-off with its
\* permit and gives it back only in the step that ends the back-off; while
\* it sleeps it counts as live, and the supervisor spawns only while fewer
\* than count workers are live.  A pump that ended without error gives the
\* permit back in that very step.
BackoffHoldsPermit ==
    /\ [](permits + Cardinality({w \in WorkerSlots : wk[w].pc = "backoff"})
             <= count)
    /\ [][/\ \A w \in WorkerSlots :
               /\ (wk[w].pc # "backoff" /\ wk'[w].pc = "backoff") =>
                     /\ wk[w].pc \in {"dial_remote", "dial_local", "pump"}
                     /\ permits' = permits
               /\ wk[w].pc = "backoff" =>
                     \/ wk'[w].pc = "backoff"
                     \/ wk'[w].pc = "none" /\ permits' = permits + 1
          /\ "err" \in exit_paths' \ exit_paths =>
               \E w \in WorkerSlots : wk[w].pc = "backoff" /\ wk'[w].pc = "none"
          /\ "ok" \in exit_paths' \ exit_paths =>
               /\ permits' = permits + 1
               /\ \E w \in WorkerSlots : wk[w].pc = "pump" /\ wk'[w].pc = "none"
          /\ spawn_parity' # spawn_parity =>
               /\ Cardinality(Live) < count
               /\ permits > 0]_vars

\* C16 witness: every permit is held by a worker in back-off while the
\* supervisor is running, after another worker left without back-off.
AllPermitsInBackoff ==
    /\ sup = "running"
    /\ ~shutdown_sent
    /\ count > 0
    /\ permits = 0
    /\ \A w \in Live : wk[w].pc = "backoff"
    /\ "ok" \in exit_paths

\* C17: while no shutdown signal has been broadcast, whenever fewer than
\* count workers are live the supervisor eventually spawns a worker, and
\* every spawned worker eventually starts its dial to the agent-pool port.
RestartOnExit ==
    /\ \A b \in {0, 1} :
          (/\ sup = "running"
           /\ ~shutdown_sent
           /\ Cardinality(Live) < count
           /\ spawn_parity = b)
             ~> (shutdown_sent \/ spawn_parity # b)
    /\ \A w \in WorkerSlots :
          (wk[w].pc = "spawned" /\ ~shutdown_sent)
             ~> (shutdown_sent \/ wk[w].remote = "connecting")

\* C17 witness: workers have left by success and by failure, no signal was
\* sent, and count workers are live again, one of them dialing.
RespawnedAfterExits ==
    /\ ~shutdown_sent
    /\ {"ok", "err"} \subseteq exit_paths
    /\ count > 0
    /\ Cardinality(Live) = count
    /\ \E w \in Live : wk[w].remote = "connecting"

\* C18 as stated: a worker dials the local service only once its agent
\* socket is open and has keepalive applied; it pumps only with both
\* sockets open and keepalive applied; after a failed step its sockets are
\* closed.
WorkerStepOrder ==
    \A w \in WorkerSlots :
       /\ wk[w].local # "closed" => (wk[w].remote = "open" /\ wk[w].keepalive)
       /\ wk[w].pc = "pump" =>
             (wk[w].remote = "open" /\ wk[w].local = "open" /\ wk[w].keepalive)
       /\ wk[w].pc \in {"backoff", "none"} =>
             (wk[w].remote = "closed" /\ wk[w].local = "closed")

\* C18 amended: a worker dials the local service only once its agent
\* socket is open, applies keepalive to the agent socket only once the local
\* socket is open as well, and pumps only with both sockets open and
\* keepalive applied; after a failed step its sockets are closed and it
\* does not pump.
WorkerStepOrderKeepaliveLast ==
    \A w \in WorkerSlots :
       /\ wk[w].remote # "closed" => wk[w].pc \in {"dial_remote", "dial_local", "pump"}
       /\ wk[w].local # "closed" => wk[w].remote = "open"
       /\ wk[w].keepalive => (wk[w].remote = "open" /\ wk[w].local = "open")
       /\ wk[w].pc = "pump" =>
             (wk[w].remote = "open" /\ wk[w].local = "open" /\ wk[w].keepalive)
       /\ wk[w].pc \in {"backoff", "none"} =>
             (wk[w].remote = "closed" /\ wk[w].local = "closed")

\* C18 witness: one worker pumps with both sockets open and keepalive set
\* while another, whose dial failed, sits in back-off with no socket.
PumpingBesideFailed ==
    \E w, v \in WorkerSlots :
       /\ wk[w].pc = "pump" /\ wk[w].keepalive
       /\ wk[v].pc = "backoff" /\ wk[v].remote = "closed"

\* The hosts of the control-plane URLs in use.
KnownHosts == {"127.0.0.1", "lt.example", "localtunnel.me"}

\* The host portion of a control-plane URL.
HostPortion(url) == CHOOSE h \in KnownHosts : Contains(url, h)

\* C21: the address a worker dials for its agent socket is the descriptor's
\* ip when the descriptor has one, else the host portion of the
\* control-plane URL, and its port is the descriptor's port.
AgentDialTarget ==
    \A w \in WorkerSlots :
       wk[w].remote # "closed" =>
          /\ tunnel_info # <<>>
          /\ proxy_resp # <<>>
          /\ agent_address(tunnel_info) =
                (IF proxy_resp.body.ip # <<>>
                 THEN proxy_resp.body.ip[1]
                 ELSE <<HostPortion(IF server = <<>> THEN PROXY_SERVER ELSE server[1])>>)
                \o <<":", proxy_resp.body.port[1]>>

\* C21 witness: a worker's agent socket is open; the descriptor had no ip
\* and the control-plane URL carries userinfo, a port and trailing slashes.
DialedControlPlaneHost ==
    /\ server # <<>>
    /\ Contains(server[1], "@")
    /\ proxy_resp # <<>>
    /\ proxy_resp.body.ip = <<>>
    /\ \E w \in WorkerSlots : wk[w].remote = "open"

\* The allocation call failed: reqwest::get returned an error, or the body
\* is no descriptor (no JSON, or JSON without id, port or url).
AllocationFailed ==
    /\ proxy_resp # <<>>
    /\ \/ proxy_resp.err
       \/ ~proxy_resp.body.json
       \/ \E f \in {"id", "port", "url"} : proxy_resp.body[f] = <<>>

\* C22: when the allocation call failed, open_tunnel has returned an error,
\* no supervisor and no worker exists and no socket has been dialed.
FailedAllocationSpawnsNothing ==
    AllocationFailed =>
       /\ open_tunnel_pc = "returned_err"
       /\ tunnel_info = <<>>
       /\ sup = "none"
       /\ count = 0
       /\ spawn_parity = 0
       /\ \A w \in WorkerSlots : wk[w] = NoWorker

\* C22 witness: the allocator's 401 (a text body) made open_tunnel return
\* an error.
RejectedAllocationReturned ==
    /\ proxy_resp # <<>>
    /\ proxy_resp.status = 401
    /\ open_tunnel_pc = "returned_err"

----------------------------------------------------------------------------
(* Server properties *)

\* The records hd' holds more copies of than hd: what a step produced.
Produced == {r \in BagToSet(hd') : CopiesIn(r, hd') > CopiesIn(r, hd)}

\* A secret the selected auth mode reads is absent from CONFIG.
SecretMissing ==
    \/ auth_mode = "PLAINTEXT" /\ CONFIG.plaintext_password = <<>>
    \/ auth_mode = "CLOUDFLARE" /\ \E f \in CloudflareSecrets : CONFIG[f] = <<>>

\* The credential the selected mode expects for an endpoint.
Expected(endpoint) ==
    IF auth_mode = "PLAINTEXT" THEN CONFIG.plaintext_password[1]
    ELSE KvValue(endpoint)

\* C5: a handler reaches manager.put only from the Auth Gate, for an
\* endpoint of the grammar and a credential check that returned valid; the
\* registry changes only by manager.put of such a handler (or a removal),
\* never in a step that answers 400, 401 or 500 before manager.put.
PutOnlyAfterValidationAndAuth ==
    [][/\ \A r \in Produced :
            r.pc = "lock" =>
               \E q \in InFlight :
                  /\ q.pc = "auth"
                  /\ hd' = Step(q, r)
                  /\ validate_endpoint(q.endpoint)
                  /\ \/ auth_mode = "NOAUTH"
                     \/ /\ ~SecretMissing
                        /\ q.credential = <<Expected(q.endpoint)>>
       /\ \A r \in Produced :
            r.pc \in {"put", "create"} =>
               \E q \in InFlight : q.pc \in {"lock", "put"} /\ hd' = Step(q, r)
       /\ \A r \in Produced :
            (r.pc = "done" /\ r.status \in {400, 401, 404}) => tunnels' = tunnels
       /\ \A r \in Produced :
            (r.pc = "done" /\ r.status = 500) =>
               /\ tunnels' = tunnels
               /\ \E q \in InFlight : q.pc \in {"auth", "create"} /\ hd' = Step(q, r)
       /\ \A t \in tunnels' \ tunnels :
            \E q \in InFlight :
               q.pc = "create" /\ t.sub = q.endpoint /\ validate_endpoint(t.sub)]_vars

\* C5 witness: with a tunnel registered, one request has been answered 200
\* and another was turned away by the Auth Gate with 401.
RejectedBesideAllocated ==
    /\ auth_mode = "PLAINTEXT"
    /\ tunnels # {}
    /\ \E r1, r2 \in InFlight :
         /\ r1.pc = "done" /\ r1.status = 200
         /\ r2.pc = "done" /\ r2.status = 401

\* C6: the outcome of the Auth Gate.  In NOAUTH mode every request passes;
\* in PLAINTEXT and CLOUDFLARE mode a request without credential is answered
\* 401, one whose credential differs from the expected one is answered 401,
\* and one whose credential equals it passes to manager.put; a request that
\* passed is answered 200 (500 only when manager.put itself fails).
AuthGateOutcome ==
    [][/\ \A q \in InFlight : \A r \in Produced :
            (q.pc = "auth" /\ hd' = Step(q, r)) =>
               IF auth_mode = "NOAUTH"
               THEN r.pc = "lock"
               ELSE IF q.credential = <<>>
                    THEN r.pc = "done" /\ r.status = 401
                    ELSE IF SecretMissing \/ r.auth = "Err(500)"
                         THEN TRUE
                         ELSE IF q.credential = <<Expected(q.endpoint)>>
                              THEN r.pc = "lock"
                              ELSE r.pc = "done" /\ r.status = 401
       /\ \A q \in InFlight : \A r \in Produced :
            (q.pc \in {"put", "create"} /\ r.pc = "done" /\ hd' = Step(q, r)) =>
               \/ r.status = 200
               \/ r.status = 500 /\ q.pc = "create" /\ tunnels' = tunnels]_vars

\* C6 witness: in PLAINTEXT mode one request (right password) stands
\* answered 200 and another (wrong password) answered 401.
RightAndWrongPassword ==
    /\ auth_mode = "PLAINTEXT"
    /\ \E r1, r2 \in InFlight :
         /\ r1.pc = "done" /\ r1.status = 200
         /\ r2.pc = "done" /\ r2.status = 401 /\ r2.auth = "Ok(false)"

\* C7 as stated: while a secret of the selected mode is absent, every
\* request with a valid subdomain is answered 500, with or without
\* credential, and no tunnel is created.
MissingSecretAlways500 ==
    [][SecretMissing =>
         /\ tunnels' = {}
         /\ \A q \in InFlight : \A r \in Produced :
               (q.pc = "auth" /\ hd' = Step(q, r)) =>
                  r.pc = "done" /\ r.status = 500]_vars

\* C7 amended: while a secret of the selected mode is absent, every request
\* with a valid subdomain that carries a credential is answered 500, one
\* that carries none is answered 401, and no tunnel is created.
MissingSecret500WithCredential ==
    [][SecretMissing =>
         /\ tunnels' = {}
         /\ \A q \in InFlight : \A r \in Produced :
               (q.pc = "auth" /\ hd' = Step(q, r)) =>
                  /\ r.pc = "done"
                  /\ r.status = IF q.credential = <<>> THEN 401 ELSE 500]_vars

\* C7 witness: a secret is absent and a request that carried a credential
\* stands answered 500 by the Auth Gate.
AnsweredMissingSecret ==
    /\ SecretMissing
    /\ \E r \in InFlight :
         r.pc = "done" /\ r.status = 500 /\ r.auth = "Err(500)"

\* C8: no subdomain maps to two Tunnels, no port serves two Tunnels, at most
\* one handler is inside manager.put, and every 200 response carries the
\* port of the one live Tunnel of its subdomain.
OneTunnelPerSubdomain ==
    /\ \A t1, t2 \in tunnels : (t1.sub = t2.sub \/ t1.port = t2.port) => t1 = t2
    /\ \A r1, r2 \in InFlight :
         (r1.pc \in {"put", "create"} /\ r2.pc \in {"put", "create"}) =>
            r1 = r2 /\ CopiesIn(r1, hd) = 1
    /\ \A r \in InFlight :
         r.desc # <<>> =>
            [sub |-> r.endpoint, port |-> r.desc[1].port] \in tunnels

\* C8 witness: one handler is creating the Tunnel of a subdomain while
\* another request for the same subdomain waits for the manager lock.
ConcurrentSameSubdomain ==
    \E r1, r2 \in InFlight :
       /\ r1.pc = "create"
       /\ r2.pc = "lock"
       /\ r1.endpoint = r2.endpoint
       /\ put_lookup(r1.endpoint) = {}

\* C9: the 200 responses for one subdomain, with no removal of its Tunnel
\* in between, carry the same port and the same url.
IdempotentAllocation ==
    \A r1, r2 \in InFlight :
       (r1.desc # <<>> /\ r2.desc # <<>> /\ r1.endpoint = r2.endpoint) =>
          /\ r1.desc[1].port = r2.desc[1].port
          /\ r1.desc[1].url = r2.desc[1].url

\* C9 witness: two requests for the same subdomain both stand answered 200
\* with the same descriptor, while another subdomain has a Tunnel as well.
SecondCallReusedTunnel ==
    /\ Cardinality(tunnels) = 2
    /\ \E r \in InFlight : r.status = 200 /\ CopiesIn(r, hd) = 2

\* The endpoints the server extracts from a request for the sentinel: from
\* the URI the client builds with no subdomain, and from /%3Fnew.
SentinelEndpoints ==
    {PathEndpoint(BuildUri(<<>>, c)) : c \in {<<>>} \cup {<<c>> : c \in Credentials}}
    \cup {NewSentinel}

\* C10: a request for the sentinel ?new is answered 200 with a descriptor
\* whose id is a generated subdomain of the grammar and whose url is built
\* from that id.
SentinelAnswered200 ==
    \A r \in InFlight :
       (auth_mode = "NOAUTH" /\ r.pc = "done" /\ r.endpoint \in SentinelEndpoints) =>
          /\ r.status = 200
          /\ r.desc # <<>>
          /\ validate_endpoint(r.desc[1].id)
          /\ r.desc[1].url = ProxyInfo(r.desc[1].id, r.desc[1].port).url

\* The subdomain grammar as the design states it: length 1 to 63, only
\* a-z, 0-9 and '-', neither first nor last character '-'.
InGrammar(s) ==
    /\ Len(s) >= 1
    /\ Len(s) <= MaxMiddle + 2
    /\ \A i \in 1 .. Len(s) : s[i] \in Lower \cup Digit \cup {"-"}
    /\ s[1] # "-"
    /\ s[Len(s)] # "-"

\* C11: a request is answered 400 exactly when its subdomain is outside the
\* grammar (the empty string, "A", "-x", "x-", 64 characters), and a
\* subdomain of the grammar ("a", "0", "demo", "123", 63 characters) is
\* accepted: it goes on to the Auth Gate and manager.put.
ValidationMatchesGrammar ==
    \A r \in InFlight :
       IF InGrammar(r.endpoint)
       THEN r.pc # "done" \/ r.status \in {200, 500}
       ELSE r.pc = "done" /\ r.status = 400

----------------------------------------------------------------------------
(* Startup and descriptor properties *)

\* C19: auth::validate returns an error exactly when a secret the selected
\* mode requires is absent: PLAINTEXT iff plaintext_password is absent,
\* CLOUDFLARE iff one of account, namespace, auth email, auth key is absent,
\* NOAUTH never.
StartupValidationExact ==
    validated # "" =>
       /\ validated \in {"Ok", "Err"}
       /\ validated = "Err" <=> SecretMissing
       /\ auth_mode = "NOAUTH" => validated = "Ok"

\* C19 witness: CLOUDFLARE mode was refused for one absent secret although
\* the password of the other mode is set.
CloudflareOneSecretAbsent ==
    /\ auth_mode = "CLOUDFLARE"
    /\ validated = "Err"
    /\ Cardinality({f \in CloudflareSecrets : CONFIG[f] = <<>>}) = 1
    /\ CONFIG.plaintext_password # <<>>

\* C20: every 200 response carries a descriptor whose id is the requested
\* subdomain, whose port is the port of that subdomain's Tunnel as
\* manager.put returned it, whose max_conn_count is max_sockets and whose
\* url is <scheme>://<subdomain>.<domain>, https when secure, else http.
DescriptorOfAllocation ==
    \A r \in InFlight :
       (r.pc = "done" /\ r.status = 200) =>
          /\ r.desc # <<>>
          /\ r.desc[1].id = r.endpoint
          /\ \E t \in tunnels : t.sub = r.endpoint /\ t.port = r.desc[1].port
          /\ r.desc[1].max_conn_count = DefaultMaxSockets
          /\ r.desc[1].url[1] = (IF secure THEN "https" ELSE "http")
          /\ r.desc[1].url = <<r.desc[1].url[1], "://", r.endpoint, ".", Domain>>

\* C20 witness: a secure server has answered 200 for the subdomain b-0.
SecureDescriptor ==
    /\ secure
    /\ \E r \in InFlight :
         /\ r.pc = "done" /\ r.status = 200
         /\ r.endpoint = <<"b", "-", "0">>
         /\ r.desc[1].url[1] = "https"

----------------------------------------------------------------------------
(* Agent Socket Pool properties *)

\* The sockets that are Paired.
PairedSockets == {p.agent : p \in pool_paired}

\* C12: waiting plus paired never exceeds the capacity, and an agent socket
\* accepted while the live count equals the capacity is closed in the same
\* step and is never in the FIFO, paired or handed out.
PoolWithinCapacity ==
    /\ [](/\ Len(pool_waiting) + Cardinality(pool_paired) <= pool_capacity
          /\ \A s \in pool_rejected :
               /\ s \in pool_closed
               /\ s \notin Range(pool_waiting)
               /\ s \notin PairedSockets
               /\ s \notin Range(pool_handed))
    /\ [][(/\ pool_accepted' = pool_accepted + 1
           /\ Len(pool_waiting) + Cardinality(pool_paired) = pool_capacity)
          => /\ pool_accepted' \in pool_closed'
             /\ pool_accepted' \in pool_rejected'
             /\ pool_waiting' = pool_waiting]_vars

\* C12 witness: the pool is full with a Waiting and a Paired socket, and a
\* further agent socket has been closed on accept.
FullPoolRejected ==
    /\ pool_waiting # <<>>
    /\ pool_paired # {}
    /\ Len(pool_waiting) + Cardinality(pool_paired) = pool_capacity
    /\ pool_rejected # {}

\* C13: no agent socket is handed out twice, no two Pairings share an agent
\* socket or a user socket, and every accepted socket is in exactly one of
\* Waiting, Paired and Closed.
OneTakerPerSocket ==
    /\ \A i, j \in 1 .. Len(pool_handed) :
          pool_handed[i] = pool_handed[j] => i = j
    /\ \A i, j \in 1 .. Len(pool_waiting) :
          pool_waiting[i] = pool_waiting[j] => i = j
    /\ \A p, q \in pool_paired : (p.agent = q.agent \/ p.user = q.user) => p = q
    /\ Range(pool_waiting) \cap PairedSockets = {}
    /\ Range(pool_waiting) \cap pool_closed = {}
    /\ PairedSockets \cap pool_closed = {}
    /\ Range(pool_waiting) \cup PairedSockets \cup pool_closed = 1 .. pool_accepted
    /\ PairedSockets \subseteq Range(pool_handed)

\* C13 witness: three takers called take() on one pool and a single agent
\* socket has arrived: one taker is Paired with it, the other two still wait.
ConcurrentTakersOneSocket ==
    /\ pool_accepted = 1
    /\ Cardinality(pool_paired) = 1
    /\ Cardinality({u \in Users : pool_taker[u] = "waiting"}) >= 2

\* C14: take() hands out agent sockets in the order they were enqueued.
TakenInArrivalOrder ==
    \A i, j \in 1 .. Len(pool_handed) :
       i < j => pool_handed[i] < pool_handed[j]

\* C14 witness: three sockets have been handed out, and a socket enqueued
\* between two of them was not (its peer had closed it).
HandedOutWithGap ==
    /\ Len(pool_handed) >= 3
    /\ \E i \in 1 .. (Len(pool_handed) - 1) :
          pool_handed[i + 1] > pool_handed[i] + 1

====
